---- MODULE Spec2Model ----
(***************************************************************************)
(* DAService (app/sites/deviantart/service.py): the credential lifecycle   *)
(* (_ensure_access, _fetch_access_token, _refresh_token, _authorize,       *)
(* _save_tokens) and the rate-limit aware pager (_pager) driven by         *)
(* list_folders / list_folder_arts.                                        *)
(***************************************************************************)
EXTENDS Integers, Sequences, FiniteSets

\* ------------------------------------------------------------------ bounds
\* 429 responses a pagination run may receive before its first other response.
MaxBurst == 6
\* 429 responses a pagination run may receive after its first other response.
MaxThrottles == 1
\* Accepted pages with has_more = true one pagination run may receive.
MaxPages == 2
\* Top-level get_download / get_art_info calls.
MaxCalls == 2
\* 429 responses one top-level get_art_info call may receive.
MaxRetries == 2
\* 429 responses a pagination run may have handled when the single-item
\* calls begin.
MaxListed == 1
\* Responses a run may handle before the server's last page, where the run's
\* end is checked.
MaxTurns == 3

\* --------------------------------------------------------- program constants
DEFAULT_RATE_LIMIT_TIMEOUT == 32
INVALID_CODE_MSG == "Incorrect authorization code."
\* params['limit'] of _pager
limit == 24
\* the `64 * 10` of _pager
FORCE_ACCESS_AFTER == 64 * 10

\* Python's None
None == <<>>

\* ------------------------------------------------------------ server inputs
\* The pages a listing may serve: the items of each and the cursor the server
\* returns with it (24 is offset + limit after the first request, 30 is not).
Pages == { << <<1>>, 24 >>, << <<2, 3>>, 30 >> }

\* JSON bodies of a listing response ({results, has_more, next_offset, error?}):
\* a page, a page that carries an `error` field as well, a bare error object,
\* or an empty body (json() gives None).
Blank == [ kind |-> "unread", error |-> FALSE, results |-> <<>>,
           has_more |-> FALSE, next_offset |-> 0 ]
PageBodies ==
  { [ kind |-> "page", error |-> FALSE, results |-> p[1],
      has_more |-> h, next_offset |-> p[2] ] : p \in Pages, h \in BOOLEAN }
ErrorPages ==
  { [ kind |-> "page", error |-> TRUE, results |-> <<2, 3>>,
      has_more |-> h, next_offset |-> 30 ] : h \in BOOLEAN }
ErrorBody == [ Blank EXCEPT !.kind = "error", !.error = TRUE ]
EmptyBody == [ Blank EXCEPT !.kind = "empty" ]
Bodies == PageBodies \cup ErrorPages \cup { ErrorBody, EmptyBody }
AnyPage == CHOOSE b \in PageBodies : b.has_more
\* The 429s a listing may be answered with: with a payload, with an error
\* object (the API's rate-limit answer), with an empty body.
ThrottleResponses == [ status : { 429 }, body : { AnyPage, ErrorBody, EmptyBody } ]
\* The listing's answers, its 429s in the API's shape.
Responses ==
  [ status : { 200 }, body : Bodies ]
  \cup [ status : { 500 }, body : { AnyPage, ErrorBody, EmptyBody } ]
  \cup [ status : { 429 }, body : { ErrorBody } ]

\* Answers of the probe endpoint /api/v1/oauth2/placebo: status "success",
\* another status, or a body without `status`.
NoProbe == "not_probed"
ProbeResponses == { "success", "error", "no_status" }

\* Answers of the token endpoint /oauth2/token.
\*   ok      response.ok (HTTP status below 400)
\*   error   'error' in data
\*   desc    data['error_description']: the invalid-code message, another one,
\*           or no such key
\*   tokens  which of access_token / refresh_token the body carries
NoToken == [ ok |-> FALSE, error |-> FALSE, desc |-> "unsent", tokens |-> "none" ]
Descriptions == { INVALID_CODE_MSG, "other", "absent" }
TokenResponses ==
  [ ok : {TRUE}, error : {FALSE}, desc : {"absent"},
    tokens : {"both", "access_only", "none"} ]
  \cup [ ok : {FALSE}, error : {TRUE}, desc : Descriptions, tokens : {"none"} ]
  \cup [ ok : {FALSE}, error : {FALSE}, desc : Descriptions, tokens : {"none"} ]

\* -------------------------------------------------------------------- state
VARIABLES
  creds,          \* self.creds[SLUG][OAUTH_KEY], loaded once by __init__
  code,           \* self.code
  access_token,   \* self.access_token
  refresh_token,  \* self.refresh_token
  store,          \* the credential store's record (get_creds / save_creds)
  saves,          \* records written by save_creds, oldest first
  issued,         \* token pairs the token endpoint has issued so far
  lastEA,         \* what the latest _ensure_access call did
  pc,             \* "idle" | "running" | "done" | "quit" | "raised"
  why,            \* how the run ended
  rate_limit_sec, \* _pager's rate_limit_sec
  params,         \* _pager's params: offset and limit
  yielded,        \* items the pager has yielded, in order
  log,            \* one record per response the pager has handled
  session_token,  \* access token in the headers the run's session was opened with
  diag,           \* 'Rate limit in pager' lines the run has printed
  throttled_body, \* kind of the body of the 429 being retried, "none" otherwise
  code_sent,      \* token requests sent so far that carried self.code
  op_pc,          \* "idle" | "download_sent" | "art_sent" | "art_retry" | "raised"
  _rate_limit_sec, \* get_art_info's parameter _rate_limit_sec
  sleeps,         \* sleeps of the latest top-level get_art_info call, in order
  returned,       \* how the latest get_download / get_art_info call ended
  calls           \* top-level get_download / get_art_info calls so far

credVars == << creds, code, access_token, refresh_token, store, saves, issued, lastEA,
              code_sent >>
vars == << creds, code, access_token, refresh_token, store, saves, issued, lastEA,
           pc, why, rate_limit_sec, params, yielded, log,
           session_token, diag, throttled_body, code_sent,
           op_pc, _rate_limit_sec, sleeps, returned, calls >>
lookupVars == << op_pc, _rate_limit_sec, sleeps, returned, calls >>
pagerVars == << rate_limit_sec, params, yielded, log, session_token, diag, throttled_body >>

\* The credential part of the state as one value, as the methods see it.
Self ==
  [ creds |-> creds, code |-> code, access_token |-> access_token,
    refresh_token |-> refresh_token, store |-> store, saves |-> saves,
    issued |-> issued ]

\* ----------------------------------------------------------- _save_tokens
\* deepcopy(self.creds), pop 'code', set both tokens, save_creds.
\* Faulty variant (C9's sensitivity): the copy keeps the code.
_save_tokens_keeps_code(s) ==
  LET rec == [ code |-> s.creds.code, access_token |-> s.access_token,
               refresh_token |-> s.refresh_token ]
  IN [ s EXCEPT !.store = rec, !.saves = Append(@, rec) ]

_save_tokens(s) ==
  LET rec == [ code |-> None, access_token |-> s.access_token,
               refresh_token |-> s.refresh_token ]
  IN [ s EXCEPT !.store = rec, !.saves = Append(@, rec) ]

\* -------------------------------------------------------------- _authorize
\* The result of a method: the credential state it leaves, how it ended
\* ("return" | "quit" for quit(1) | "raise" for an exception), the exception
\* or message, the grant types of the token requests it sent, in order, and the
\* token endpoint's last answer.
Result(s, out, msg, grants, tok) ==
  [ self |-> s, out |-> out, msg |-> msg, grants |-> grants, tok |-> tok ]

\* The token pair the endpoint issues with its n-th successful answer.
Token(n) == << n >>

_authorize(s, grant, tok) ==
  LET sent == [ s EXCEPT !.issued = IF tok.ok /\ ~tok.error /\ tok.tokens # "none"
                                    THEN @ + 1 ELSE @ ]
      fresh == Token(sent.issued)
  IN
  IF tok.error
    THEN IF tok.desc = "absent"
           THEN Result(sent, "raise", "KeyError", << grant >>, tok)
           ELSE Result(sent, "quit", "An error occured during authorization", << grant >>, tok)
  ELSE IF tok.ok
    THEN IF tok.tokens = "none"
           THEN Result(sent, "raise", "KeyError", << grant >>, tok)
         ELSE IF tok.tokens = "access_only"
           THEN Result([ sent EXCEPT !.access_token = fresh ],
                       "raise", "KeyError", << grant >>, tok)
         ELSE Result(_save_tokens([ sent EXCEPT !.access_token = fresh,
                                                !.refresh_token = fresh ]),
                     "return", "none", << grant >>, tok)
  ELSE IF tok.desc = "absent"
    THEN Result(sent, "raise", "KeyError", << grant >>, tok)
  ELSE IF tok.desc = INVALID_CODE_MSG
    THEN Result(sent, "return", "Please authorize again", << grant >>, tok)
  ELSE Result(sent, "return", "none", << grant >>, tok)

\* ---------------------------------------- _fetch_access_token, _refresh_token
_fetch_access_token(s, tok) ==
  IF s.code = None
    THEN Result(s, "quit", "Authorize app first", << >>, NoToken)
    ELSE _authorize(s, "authorization_code", tok)

_refresh_token(s, tok) ==
  IF s.refresh_token = None
    THEN Result(s, "raise", "No refresh token", << >>, NoToken)
    ELSE _authorize(s, "refresh_token", tok)

\* ---------------------------------------------------------- _ensure_access
\* The call's record: the credential state it leaves, how it ended, whether
\* it probed and what the probe said.
\* Faulty variant (C8's sensitivity): no `return` after a successful probe.
_ensure_access_no_return(s, probe, tok) ==
  IF s.refresh_token = None
    THEN [ r |-> _fetch_access_token(s, tok), probe |-> NoProbe ]
  ELSE IF probe = "no_status"
    THEN [ r |-> Result(s, "raise", "KeyError", << >>, NoToken), probe |-> probe ]
  ELSE [ r |-> _refresh_token(s, tok), probe |-> probe ]

_ensure_access(s, probe, tok) ==
  IF s.refresh_token = None
    THEN [ r |-> _fetch_access_token(s, tok), probe |-> NoProbe ]
  ELSE IF probe = "no_status"
    THEN [ r |-> Result(s, "raise", "KeyError", << >>, NoToken), probe |-> probe ]
  ELSE IF probe = "success"
    THEN [ r |-> Result(s, "return", "none", << >>, NoToken), probe |-> probe ]
  ELSE [ r |-> _refresh_token(s, tok), probe |-> probe ]

\* What lastEA keeps of a call: whether refresh_token was set when it began,
\* the probe's answer, the token requests sent, the HTTP calls made, the token
\* endpoint's answer, and how the call ended.
CallRecord(s, e) ==
  [ had_refresh |-> s.refresh_token # None,
    probe |-> e.probe, grants |-> e.r.grants,
    http |-> (IF e.probe = NoProbe THEN 0 ELSE 1) + Len(e.r.grants),
    tok |-> e.r.tok, out |-> e.r.out, msg |-> e.r.msg ]

NoCall ==
  [ had_refresh |-> FALSE, probe |-> NoProbe, grants |-> << >>, http |-> 0,
    tok |-> NoToken, out |-> "none", msg |-> "none" ]

\* The probe and token answers a call can consume: the inputs it never reads
\* are fixed, so that equal calls are not told apart.
ProbesFor(s) == IF s.refresh_token = None THEN { NoProbe } ELSE ProbeResponses
TokensFor(s, probe) ==
  IF s.refresh_token = None
    THEN IF s.code = None THEN { NoToken } ELSE TokenResponses
    ELSE IF probe = "no_status" THEN { NoToken } ELSE TokenResponses

\* ------------------------------------------------------------------ _pager
\* What the log keeps of a response: the offset and limit it was requested
\* with, rate_limit_sec when it arrived, its status, the page the pager took
\* from it (accepted) or only the kind of its body and whether it had an
\* `error` field (not accepted), the sleep it caused (0 for none) and whether
\* _ensure_access was called while handling it.
Entry(p, wait, resp, seen, slept, ea) ==
  [ offset |-> p.offset, limit |-> p.limit, wait |-> wait, status |-> resp.status,
    data |-> IF seen = "page" THEN resp.body
             ELSE IF seen = "error"
               THEN [ Blank EXCEPT !.kind = resp.body.kind, !.error = resp.body.error ]
             ELSE Blank,
    accepted |-> seen = "page", slept |-> slept, ea |-> ea ]

Is429(e) == e.status = 429

\* `if response.status == 429`, the first test made of a response: the body,
\* decoded before it (json() gives None for an empty one), is not looked at.
\* Faulty variant (C16's sensitivity): only a 429 with a payload is a throttle.
ThrottledWithPayload(resp) == resp.status = 429 /\ resp.body.kind = "page"
Throttled(resp) == resp.status = 429
Throttles(l) == Len(SelectSeq(l, Is429))
Continued(l) == Len(SelectSeq(l, LAMBDA e : e.accepted /\ e.data.has_more))

\* The 429s a log opens with.
Burst(l) ==
  IF \A i \in 1..Len(l) : Is429(l[i])
    THEN Len(l)
    ELSE (CHOOSE i \in 1..Len(l) : ~Is429(l[i]) /\ \A j \in 1..(i-1) : Is429(l[j])) - 1

\* More 429s, and more pages with has_more, only within the bounds.
MayThrottle ==
  IF Burst(log) = Len(log)
    THEN Len(log) < MaxBurst
    ELSE Throttles(log) - Burst(log) < MaxThrottles
MayContinue == Continued(log) < MaxPages

\* `rate_limit_sec > 64 * 10`, reached only when rate_limit_sec is not the default
\* Faulty variant (C5's sensitivity): `> 64` for `> 64 * 10`.
ForcesAccessEarly(rate) ==
  rate # DEFAULT_RATE_LIMIT_TIMEOUT /\ rate > 64
ForcesAccess(rate) ==
  rate # DEFAULT_RATE_LIMIT_TIMEOUT /\ rate > FORCE_ACCESS_AFTER

\* `rate_limit_sec *= 2`
\* Faulty variant (C3's sensitivity): `+= 32` for `*= 2`.
BackoffLinear(rate) == rate + DEFAULT_RATE_LIMIT_TIMEOUT
Backoff(rate) == rate * 2

\* `elif rate_limit_sec != DEFAULT_RATE_LIMIT_TIMEOUT`
\* Faulty variant (C4's sensitivity): a single 429 is not noticed.
FollowsThrottleLate(rate) == rate > 2 * DEFAULT_RATE_LIMIT_TIMEOUT
FollowsThrottle(rate) == rate # DEFAULT_RATE_LIMIT_TIMEOUT

\* `for result in data['results']: yield result`
\* Faulty variant (C1's sensitivity): only the page's last item is yielded.
YieldLast(out, results) ==
  IF results = <<>> THEN out ELSE Append(out, results[Len(results)])
Yield(out, results) == out \o results

\* `params['offset'] = data['next_offset']`
\* Faulty variants: offset + limit for the server's cursor (C2's sensitivity),
\* and the cursor taken one page back (C15's).
NextOffsetBehind(p, data) == data.next_offset - p.limit
NextOffsetComputed(p, data) == p.offset + p.limit
NextOffset(p, data) == data.next_offset

\* `continue`: the retry is sent with the params as they are
\* Faulty variant (C6's sensitivity): the retry skips a page.
RetryParamsAdvanced(p) == [ p EXCEPT !.offset = @ + p.limit ]
RetryParams(p) == p

\* `'code': self.code` is a parameter of the authorization_code request only.
CarriesCode(grant) == grant = "authorization_code"

\* `if rate_limit_sec == DEFAULT_RATE_LIMIT_TIMEOUT: print('Rate limit in pager ...')`
\* Faulty variant (C18's sensitivity): the line is printed at every 429.
DiagnosesAlways(rate) == TRUE
Diagnoses(rate) == rate = DEFAULT_RATE_LIMIT_TIMEOUT

\* `ProxyClientSession(BASE_URL, headers=self._headers)`: the header is built
\* once, from the access token held when the session is opened.
_headers(s) == s.access_token

\* The credential variables after a call of _ensure_access ended as e.
SetCreds(s, e) ==
  /\ access_token' = e.r.self.access_token
  /\ refresh_token' = e.r.self.refresh_token
  /\ store' = e.r.self.store
  /\ saves' = e.r.self.saves
  /\ issued' = e.r.self.issued
  /\ lastEA' = CallRecord(s, e)
  /\ code_sent' = code_sent + Len(SelectSeq(e.r.grants, CarriesCode))
  /\ UNCHANGED << creds, code >>

\* How a run ends when _ensure_access does not return.
EndedBy(e) ==
  /\ pc' = IF e.r.out = "quit" THEN "quit" ELSE "raised"
  /\ why' = e.r.msg

\* ------------------------------------------ get_download, get_art_info
\* JSON bodies of a single-item response: an object that may carry `error`,
\* `error_description` and `src`, or an empty body (json() gives None).
Link == << "src" >>
EmptyLookup == [ kind |-> "empty", error |-> FALSE, desc |-> FALSE, src |-> None ]
LookupBodies ==
  { [ kind |-> "object", error |-> FALSE, desc |-> FALSE, src |-> Link ],
    [ kind |-> "object", error |-> FALSE, desc |-> FALSE, src |-> None ],
    [ kind |-> "object", error |-> TRUE, desc |-> TRUE, src |-> Link ],
    [ kind |-> "object", error |-> TRUE, desc |-> TRUE, src |-> None ],
    [ kind |-> "object", error |-> TRUE, desc |-> FALSE, src |-> None ],
    EmptyLookup }
LookupStatuses == { 200, 429 }

\* What `returned` keeps of a finished call: the method, the body it read, how
\* it ended ("return" | "quit" | "raise"), the value returned and the exception.
Outcome(out, value, exc) == [ out |-> out, value |-> value, exc |-> exc ]
Ended(op, body, o) ==
  [ op |-> op, body |-> body, out |-> o.out, value |-> o.value, exc |-> o.exc ]
NoReturn == Ended("none", EmptyLookup, Outcome("none", None, "none"))

\* get_download once the body is read: `'error' in data`, the print of
\* data['error_description'], `return None`, `return data['src']`.
\* Faulty variant (C14's sensitivity): the `error` field raises.
DownloadOutcomeStrict(body) ==
  IF body.kind = "empty" THEN Outcome("raise", None, "TypeError")
  ELSE IF body.error THEN Outcome("raise", None, "Exception")
  ELSE IF body.src = None THEN Outcome("raise", None, "KeyError")
  ELSE Outcome("return", body.src, "none")
DownloadOutcome(body) ==
  IF body.kind = "empty" THEN Outcome("raise", None, "TypeError")
  ELSE IF body.error
    THEN IF body.desc THEN Outcome("return", None, "none")
         ELSE Outcome("raise", None, "KeyError")
  ELSE IF body.src = None THEN Outcome("raise", None, "KeyError")
  ELSE Outcome("return", body.src, "none")

\* get_art_info once a body that came without 429 is read: `'error' in data`,
\* the print of data['error_description'], `return None`, `return data`.
ArtOutcome(body) ==
  IF body.kind = "empty" THEN Outcome("raise", None, "TypeError")
  ELSE IF body.error
    THEN IF body.desc THEN Outcome("return", None, "none")
         ELSE Outcome("raise", None, "KeyError")
  ELSE Outcome("return", << body >>, "none")

\* `self.get_art_info(deviationid, _rate_limit_sec * 2)`
\* Faulty variant (C13's sensitivity): the retry keeps the wait.
ArtBackoffFlat(rate) == rate
ArtBackoff(rate) == rate * 2

\* The head of both methods: _ensure_access, then the session opened with
\* self._headers and the request sent (op_pc becomes sent).
Prologue(op, sent) ==
  \E probe \in ProbesFor(Self) : \E tok \in TokensFor(Self, probe) :
    LET e == _ensure_access(Self, probe, tok) IN
    /\ SetCreds(Self, e)
    /\ IF e.r.out = "quit"
         THEN /\ pc' = "quit" /\ why' = e.r.msg /\ op_pc' = "idle"
              /\ returned' = Ended(op, EmptyLookup, Outcome("quit", None, e.r.msg))
       ELSE IF e.r.out = "raise"
         THEN /\ op_pc' = "raised"
              /\ returned' = Ended(op, EmptyLookup, Outcome("raise", None, e.r.msg))
              /\ UNCHANGED << pc, why >>
       ELSE IF e.r.self.access_token = None
         THEN /\ op_pc' = "raised"
              /\ returned' = Ended(op, EmptyLookup, Outcome("raise", None, "TypeError"))
              /\ UNCHANGED << pc, why >>
       ELSE /\ op_pc' = sent
            /\ UNCHANGED << pc, why, returned >>

\* Where a call that read its body leaves op_pc: an exception no code of the
\* class catches ends the task.
After(o) == IF o.out = "raise" THEN "raised" ELSE "idle"

\* A call may begin: the process has not quit, no exception has left a run or
\* a call, and no call is in flight.
MayCall == pc \in {"idle", "running", "done"} /\ op_pc = "idle" /\ calls < MaxCalls

\* ------------------------------------------------------------------- Init
\* __init__: get_creds() and the fields read from it. The store holds an
\* authorization code, or a token pair of an earlier exchange, or neither.
Stores ==
  { [ code |-> << "code" >>, access_token |-> None, refresh_token |-> None ],
    [ code |-> None, access_token |-> Token(1), refresh_token |-> Token(1) ],
    [ code |-> None, access_token |-> None, refresh_token |-> None ] }

Init ==
  /\ store \in Stores
  /\ creds = store
  /\ code = store.code
  /\ access_token = store.access_token
  /\ refresh_token = store.refresh_token
  /\ saves = << >>
  /\ issued = IF store.access_token = None THEN 0 ELSE 1
  /\ lastEA = NoCall
  /\ pc = "idle"
  /\ why = "none"
  /\ rate_limit_sec = DEFAULT_RATE_LIMIT_TIMEOUT
  /\ params = [ offset |-> 0, limit |-> limit ]
  /\ yielded = << >>
  /\ log = << >>
  /\ session_token = None
  /\ diag = 0
  /\ throttled_body = "none"
  /\ code_sent = 0
  /\ op_pc = "idle"
  /\ _rate_limit_sec = DEFAULT_RATE_LIMIT_TIMEOUT
  /\ sleeps = << >>
  /\ returned = NoReturn
  /\ calls = 0

\* ---------------------------------------------------------------- actions
\* list_folders / list_folder_arts up to the pager's first request:
\* _ensure_access, the session opened with self._headers, the pager's locals.
ListStart ==
  /\ pc = "idle"
  /\ \E probe \in ProbesFor(Self) : \E tok \in TokensFor(Self, probe) :
       LET e == _ensure_access(Self, probe, tok) IN
       /\ SetCreds(Self, e)
       /\ IF e.r.out # "return"
            THEN EndedBy(e)
          ELSE IF e.r.self.access_token = None
            THEN pc' = "raised" /\ why' = "TypeError"
          ELSE pc' = "running" /\ why' = "none"
       /\ session_token' = IF e.r.out = "return" THEN _headers(e.r.self) ELSE None
  /\ rate_limit_sec' = DEFAULT_RATE_LIMIT_TIMEOUT
  /\ params' = [ offset |-> 0, limit |-> limit ]
  /\ yielded' = << >>
  /\ log' = << >>
  /\ diag' = 0
  /\ throttled_body' = "none"
  /\ UNCHANGED lookupVars

\* One turn of the pager's loop on a 429 response, one of answers.
ThrottledTurn(answers) ==
  /\ pc = "running"
  /\ MayThrottle
  /\ \E resp \in answers :
       /\ Throttled(resp)
       /\ throttled_body' = resp.body.kind
       /\ IF ForcesAccess(rate_limit_sec)
            THEN \E probe \in ProbesFor(Self) : \E tok \in TokensFor(Self, probe) :
                   LET e == _ensure_access(Self, probe, tok) IN
                   /\ SetCreds(Self, e)
                   /\ IF e.r.out = "return"
                        THEN /\ rate_limit_sec' = Backoff(rate_limit_sec)
                             /\ log' = Append(log, Entry(params, rate_limit_sec, resp,
                                                         "none", rate_limit_sec, TRUE))
                             /\ UNCHANGED << pc, why >>
                        ELSE /\ EndedBy(e)
                             /\ log' = Append(log, Entry(params, rate_limit_sec, resp,
                                                         "none", 0, TRUE))
                             /\ UNCHANGED rate_limit_sec
            ELSE /\ rate_limit_sec' = Backoff(rate_limit_sec)
                 /\ log' = Append(log, Entry(params, rate_limit_sec, resp,
                                             "none", rate_limit_sec, FALSE))
                 /\ UNCHANGED << credVars, pc, why >>
  /\ params' = RetryParams(params)
  /\ diag' = IF Diagnoses(rate_limit_sec) THEN diag + 1 ELSE diag
  /\ UNCHANGED << yielded, session_token >>
  /\ UNCHANGED lookupVars

\* One turn of the pager's loop on a 429 response in the API's shape.
\* Faulty variant (C17's sensitivity): the third 429 in a row ends the run.
PagerThrottledCapped ==
  /\ pc = "running"
  /\ MayThrottle
  /\ \E resp \in Responses :
       /\ Throttled(resp)
       /\ throttled_body' = resp.body.kind
       /\ IF rate_limit_sec > 2 * DEFAULT_RATE_LIMIT_TIMEOUT
            THEN /\ pc' = "raised" /\ why' = "Too many retries"
                 /\ log' = Append(log, Entry(params, rate_limit_sec, resp, "none", 0, FALSE))
                 /\ UNCHANGED rate_limit_sec
            ELSE /\ rate_limit_sec' = Backoff(rate_limit_sec)
                 /\ log' = Append(log, Entry(params, rate_limit_sec, resp,
                                             "none", rate_limit_sec, FALSE))
                 /\ UNCHANGED << pc, why >>
  /\ UNCHANGED << credVars, params, yielded, session_token, diag, lookupVars >>

PagerThrottled == ThrottledTurn(Responses)

\* The same turn on a 429 with any body.
PagerThrottledAny == ThrottledTurn(ThrottleResponses)

\* The rest of a turn once the response passed the 429 / post-throttle / error
\* branches: raise_for_status, the yields, has_more, next_offset.
Accept(resp, ea) ==
  IF resp.status >= 400
    THEN /\ pc' = "raised" /\ why' = "ClientResponseError"
         /\ log' = Append(log, Entry(params, rate_limit_sec, resp, "error", 0, ea))
         /\ UNCHANGED << params, yielded >>
  ELSE IF resp.body.kind = "empty"
    THEN /\ pc' = "raised" /\ why' = "TypeError"
         /\ log' = Append(log, Entry(params, rate_limit_sec, resp, "error", 0, ea))
         /\ UNCHANGED << params, yielded >>
  ELSE IF resp.body.kind = "error"
    THEN /\ pc' = "raised" /\ why' = "KeyError"
         /\ log' = Append(log, Entry(params, rate_limit_sec, resp, "error", 0, ea))
         /\ UNCHANGED << params, yielded >>
  ELSE /\ yielded' = Yield(yielded, resp.body.results)
       /\ log' = Append(log, Entry(params, rate_limit_sec, resp, "page", 0, ea))
       /\ IF resp.body.has_more = FALSE
            THEN pc' = "done" /\ why' = "none" /\ UNCHANGED params
            ELSE /\ params' = [ params EXCEPT !.offset = NextOffset(params, resp.body) ]
                 /\ UNCHANGED << pc, why >>

\* One turn of the pager's loop on a response that is not a 429.
PagerResponse ==
  /\ pc = "running"
  /\ \E resp \in Responses :
       /\ ~Throttled(resp)
       /\ (resp.body.kind = "page" /\ resp.body.has_more) => MayContinue
       /\ IF FollowsThrottle(rate_limit_sec)
            THEN /\ rate_limit_sec' = DEFAULT_RATE_LIMIT_TIMEOUT
                 /\ \E probe \in ProbesFor(Self) : \E tok \in TokensFor(Self, probe) :
                      LET e == _ensure_access(Self, probe, tok) IN
                      /\ SetCreds(Self, e)
                      /\ IF e.r.out = "return"
                           THEN Accept(resp, TRUE)
                           ELSE /\ EndedBy(e)
                                /\ log' = Append(log, Entry(params, rate_limit_sec, resp, "none", 0, TRUE))
                                /\ UNCHANGED << params, yielded >>
          ELSE IF resp.body.kind = "empty"
            THEN /\ pc' = "raised" /\ why' = "TypeError"
                 /\ log' = Append(log, Entry(params, rate_limit_sec, resp, "error", 0, FALSE))
                 /\ UNCHANGED << credVars, rate_limit_sec, params, yielded >>
          ELSE IF resp.body.error
            THEN /\ pc' = "quit" /\ why' = "An error occured during fetching"
                 /\ log' = Append(log, Entry(params, rate_limit_sec, resp, "error", 0, FALSE))
                 /\ UNCHANGED << credVars, rate_limit_sec, params, yielded >>
          ELSE /\ Accept(resp, FALSE)
               /\ UNCHANGED << credVars, rate_limit_sec >>
  /\ throttled_body' = "none"
  /\ UNCHANGED << session_token, diag >>
  /\ UNCHANGED lookupVars

Next == ListStart \/ PagerThrottled \/ PagerResponse

Spec == Init /\ [][Next]_vars

\* The latest _ensure_access call did not succeed: it quit or raised, or it
\* returned with no access token for the session's header.
FailedAccess ==
  \/ lastEA.out \in {"quit", "raise"}
  \/ log = << >> /\ pc = "raised" /\ why = "TypeError"

\* The latest response is neither a 429 nor a page the pager accepted.
BadResponse == log # << >> /\ log[Len(log)].status # 429 /\ ~log[Len(log)].accepted

\* A step in which every _ensure_access call succeeds and the server answers
\* with 429s and pages only, and comes to its last page after MaxTurns
\* responses at most.
Calm ==
  /\ ~FailedAccess' /\ ~BadResponse'
  /\ Len(log) < MaxTurns \/ pc' = "done"

CalmStart == ListStart /\ Calm
CalmThrottled == PagerThrottled /\ Calm
CalmResponse == PagerResponse /\ Calm
CalmNext == CalmStart \/ CalmThrottled \/ CalmResponse

\* A listing answered by 429s only, whatever their bodies.
ThrottledNext == ListStart \/ PagerThrottledAny

SpecThrottled == Init /\ [][ThrottledNext]_vars

\* The loop of a run that has begun takes its next turn: the consumer keeps
\* iterating and each request is answered.
PagerTurn == CalmThrottled \/ CalmResponse

SpecFair == Init /\ [][CalmNext]_vars /\ WF_vars(PagerTurn)

\* get_download up to its request.
GetDownload ==
  /\ MayCall
  /\ calls' = calls + 1
  /\ Prologue("get_download", "download_sent")
  /\ UNCHANGED << pagerVars, _rate_limit_sec, sleeps >>

\* get_download from its response on.
DownloadResponse ==
  /\ op_pc = "download_sent"
  /\ \E status \in LookupStatuses : \E body \in LookupBodies :
       /\ returned' = Ended("get_download", body, DownloadOutcome(body))
       /\ op_pc' = After(DownloadOutcome(body))
  /\ UNCHANGED << credVars, pagerVars, pc, why, _rate_limit_sec, sleeps, calls >>

\* A top-level get_art_info call (_rate_limit_sec at its default) up to its
\* request.
GetArtInfo ==
  /\ MayCall
  /\ calls' = calls + 1
  /\ _rate_limit_sec' = DEFAULT_RATE_LIMIT_TIMEOUT
  /\ sleeps' = << >>
  /\ Prologue("get_art_info", "art_sent")
  /\ UNCHANGED pagerVars

\* The call get_art_info makes of itself after a 429, up to its request.
ArtRetry ==
  /\ op_pc = "art_retry"
  /\ Prologue("get_art_info", "art_sent")
  /\ UNCHANGED << pagerVars, _rate_limit_sec, sleeps, calls >>

\* get_art_info from its response on: on a 429 the sleep and the doubled
\* parameter of the call that follows, otherwise the body.
ArtResponse ==
  /\ op_pc = "art_sent"
  /\ \E status \in LookupStatuses : \E body \in LookupBodies :
       IF status = 429
         THEN /\ Len(sleeps) < MaxRetries
              /\ body = EmptyLookup
              /\ sleeps' = Append(sleeps, _rate_limit_sec)
              /\ _rate_limit_sec' = ArtBackoff(_rate_limit_sec)
              /\ op_pc' = "art_retry"
              /\ UNCHANGED returned
         ELSE /\ returned' = Ended("get_art_info", body, ArtOutcome(body))
              /\ op_pc' = After(ArtOutcome(body))
              /\ UNCHANGED << _rate_limit_sec, sleeps >>
  /\ UNCHANGED << credVars, pagerVars, pc, why, calls >>

\* The listing before the first single-item call: its start and its
\* throttled turns, which leave rate_limit_sec away from its default.
Listing ==
  /\ calls = 0 /\ op_pc = "idle" /\ Len(log) < MaxListed
  /\ (ListStart \/ PagerThrottled)

LookupNext ==
  Listing \/ GetDownload \/ DownloadResponse \/ GetArtInfo \/ ArtRetry \/ ArtResponse

SpecLookup == Init /\ [][LookupNext]_vars

\* ======================================================================
\* Properties
\* ======================================================================
RECURSIVE Concat(_)
Concat(l) == IF l = << >> THEN << >> ELSE l[1].data.results \o Concat(Tail(l))

Last(l) == l[Len(l)]

\* The place of the 429 at i within its run of consecutive 429s (1 for the
\* first one).
RECURSIVE Pos(_, _)
Pos(l, i) == IF i = 1 \/ ~Is429(l[i-1]) THEN 1 ELSE 1 + Pos(l, i - 1)

\* The wait the 429 at i is due: 32, 64, 128, ...
WaitDue(l, i) == DEFAULT_RATE_LIMIT_TIMEOUT * 2^(Pos(l, i) - 1)

\* The run ended while handling its last response, a 429.
CutShort == pc # "running" /\ log # << >> /\ Is429(Last(log))

\* Only pages with status 200 and no `error` field, never a 429.
Clean(l) ==
  \A i \in 1..Len(l) :
    l[i].status = 200 /\ l[i].data.kind = "page" /\ ~l[i].data.error

\* C1: a run that received only non-throttled, error-free pages has yielded
\* exactly the concatenation of the pages' results, in server order; it goes on
\* while has_more is true and at the first page with has_more = false it is
\* done and sends no further request.
C1_YieldsConcatenation ==
  ((pc \in {"running", "done"} \/ log # << >>) /\ Clean(log)) =>
    /\ yielded = Concat(log)
    /\ \A i \in 1..Len(log) : log[i].accepted
    /\ \A i \in 1..(Len(log) - 1) : log[i].data.has_more
    /\ pc \in {"running", "done"}
    /\ pc = "done" <=> (log # << >> /\ ~Last(log).data.has_more)
    /\ pc = "done" => ~ENABLED PagerResponse /\ ~ENABLED PagerThrottled

\* Three pages, has_more = [true, true, false], five items, three requests.
C1_Witness ==
  /\ pc = "done" /\ Clean(log) /\ Len(log) = 3
  /\ yielded = << 1, 2, 3, 2, 3 >>

\* C2: the first request carries offset 0 and limit 24; every request carries
\* limit 24; and the request after an accepted response with has_more = true
\* carries that response's next_offset.
C2_ServerCursor ==
  /\ (pc = "running" /\ log = << >>) => params = [ offset |-> 0, limit |-> 24 ]
  /\ log # << >> => log[1].offset = 0
  /\ \A i \in 1..Len(log) : log[i].limit = 24
  /\ \A i \in 1..Len(log) :
       (log[i].accepted /\ log[i].data.has_more) =>
         IF i < Len(log)
           THEN log[i+1].offset = log[i].data.next_offset
           ELSE params.offset = log[i].data.next_offset

\* The server's cursor goes 0, 30, 24: neither is offset + limit.
C2_Witness ==
  /\ Len(log) >= 3
  /\ log[1].accepted /\ log[2].accepted
  /\ log[2].offset = 30 /\ log[3].offset = 24

\* C3 as claimed: every 429 of a run of consecutive 429s causes a sleep, of 32,
\* 64, 128, ... seconds by its place in the run, and after a response that is
\* not a 429 rate_limit_sec is 32 again.
C3_EverySleepDoubles ==
  /\ \A i \in 1..Len(log) : Is429(log[i]) => log[i].slept = WaitDue(log, i)
  /\ (log # << >> /\ ~Is429(Last(log))) => rate_limit_sec = DEFAULT_RATE_LIMIT_TIMEOUT

\* C3 as amended: the same, except that a 429 received while rate_limit_sec
\* exceeds 640 whose _ensure_access call does not return ends the run before
\* its sleep.
C3_SleepsDoubleUnlessCut ==
  /\ \A i \in 1..Len(log) :
       Is429(log[i]) =>
         /\ log[i].wait = WaitDue(log, i)
         /\ IF i = Len(log) /\ CutShort
              THEN log[i].slept = 0 /\ log[i].ea /\ log[i].wait > 640
              ELSE log[i].slept = log[i].wait
  /\ (log # << >> /\ ~Is429(Last(log))) => rate_limit_sec = DEFAULT_RATE_LIMIT_TIMEOUT
  /\ (pc = "running" /\ log # << >> /\ Is429(Last(log))) =>
       rate_limit_sec = 2 * WaitDue(log, Len(log))
  /\ \A i \in 2..Len(log) :
       (Is429(log[i]) /\ ~Is429(log[i-1])) => log[i].wait = DEFAULT_RATE_LIMIT_TIMEOUT

\* Sleeps of 32, 64, 128, a response that is not a 429, and a later 429 that
\* sleeps 32 again.
C3_Witness ==
  \E i \in 1..Len(log) : \E j \in 1..Len(log) : \E k \in 1..Len(log) :
    /\ i < j /\ j < k
    /\ Is429(log[i]) /\ log[i].slept = 128
    /\ ~Is429(log[j])
    /\ Is429(log[k]) /\ log[k].slept = 32

\* C4: while handling a response that is not a 429, _ensure_access is called
\* exactly when the response before it was a 429.
C4_AccessAfterEpisode ==
  \A i \in 1..Len(log) :
    ~Is429(log[i]) => (log[i].ea <=> (i > 1 /\ Is429(log[i-1])))

\* A page accepted after a 429 with the call, and the next page without it.
C4_Witness ==
  \E i \in 2..(Len(log) - 1) :
    /\ Is429(log[i-1])
    /\ log[i].accepted /\ log[i].ea
    /\ log[i+1].accepted /\ ~log[i+1].ea

\* C5: while handling a 429, _ensure_access is called exactly when
\* rate_limit_sec exceeds 640 on its arrival, and before the sleep (a call that
\* does not return leaves no sleep); the response that ends the run of 429s
\* still gets its own call.
C5_ForcedAccess ==
  /\ \A i \in 1..Len(log) :
       Is429(log[i]) =>
         /\ log[i].ea <=> log[i].wait > 640
         /\ log[i].slept \in { 0, log[i].wait }
         /\ log[i].slept = 0 => (log[i].ea /\ i = Len(log) /\ pc \in {"quit", "raised"})
  /\ \A i \in 2..Len(log) : (Is429(log[i-1]) /\ ~Is429(log[i])) => log[i].ea

\* The sixth 429 in a row arrives at 1024: the call, the sleep of 1024, and the
\* call again for the page that follows.
C5_Witness ==
  \E i \in 1..(Len(log) - 1) :
    /\ Is429(log[i]) /\ log[i].wait = 1024 /\ log[i].ea /\ log[i].slept = 1024
    /\ log[i+1].accepted /\ log[i+1].ea

\* C6: a turn of the loop on a 429 yields nothing and leaves params as they
\* are, and the request after a 429 carries the offset of the throttled one.
C6_ThrottleFrame ==
  [][ Len(log') = Len(log) + 1 =>
        /\ Is429(Last(log')) =>
             (yielded' = yielded /\ params' = params /\ Last(log').offset = params.offset)
        /\ (log # << >> /\ Is429(Last(log))) => Last(log').offset = Last(log).offset
    ]_vars

\* The second page, requested at 30, is throttled and then accepted at 30.
C6_Witness ==
  \E i \in 2..(Len(log) - 1) :
    /\ log[i-1].accepted
    /\ Is429(log[i]) /\ log[i].offset = 30
    /\ log[i+1].accepted /\ log[i+1].offset = 30
    /\ Len(yielded) > Len(log[i-1].data.results)

\* C7 as claimed: a response that is not a 429 and whose body has an `error`
\* field ends the run by failure, after a 429 or not: it is the run's last
\* response, and nothing of it is accepted and yielded.
C7_ErrorIsFatal ==
  \A i \in 1..Len(log) :
    (~Is429(log[i]) /\ log[i].data.error) =>
      /\ i = Len(log)
      /\ ~log[i].accepted
      /\ pc \in {"quit", "raised"}

\* C8: a call of _ensure_access sends at most one token request; with no
\* refresh_token it does not probe and the request, if any, is the
\* authorization_code one; with a refresh_token it probes, and after a probe
\* that says success it sends no token request (one HTTP call in all); a
\* refresh_token request follows only a probe that did not say success.
C8_OneExchange ==
  lastEA.out # "none" =>
    /\ Len(lastEA.grants) <= 1
    /\ lastEA.http <= 2
    /\ ~lastEA.had_refresh =>
         /\ lastEA.probe = NoProbe
         /\ lastEA.grants \in { << >>, << "authorization_code" >> }
    /\ lastEA.had_refresh =>
         /\ lastEA.probe # NoProbe
         /\ lastEA.grants \in { << >>, << "refresh_token" >> }
         /\ lastEA.probe = "success" => (lastEA.grants = << >> /\ lastEA.http = 1)
         /\ lastEA.grants = << "refresh_token" >> => lastEA.probe = "error"

\* A call that probed, was told success and returned after one HTTP call; it
\* was made inside a run, after a throttle.
C8_Witness ==
  /\ lastEA.had_refresh /\ lastEA.probe = "success" /\ lastEA.http = 1
  /\ lastEA.out = "return"
  /\ log # << >> /\ Last(log).ea

\* C9: no record written by _save_tokens holds the authorization code, and
\* once one is written the store holds none.
C9_CodeNeverSaved ==
  /\ \A i \in 1..Len(saves) : saves[i].code = None
  /\ saves # << >> => store.code = None

\* The code was loaded at start, exchanged, and a refresh exchange saved again.
C9_Witness ==
  /\ creds.code # None /\ code # None
  /\ Len(saves) >= 2
  /\ lastEA.grants = << "refresh_token" >> /\ lastEA.out = "return"

\* The token endpoint's invalid-code answer in its {error, error_description}
\* shape.
InvalidCodeAnswer ==
  [ ok |-> FALSE, error |-> TRUE, desc |-> INVALID_CODE_MSG, tokens |-> "none" ]

\* C10 as claimed: the authorization_code exchange answered by the
\* invalid-code response ends with the "authorize again" signal, and not by
\* halting.
C10_InvalidCodeNeedsReauthorization ==
  (lastEA.grants = << "authorization_code" >> /\ lastEA.tok = InvalidCodeAnswer) =>
    /\ lastEA.msg = "Please authorize again"
    /\ lastEA.out = "return"
    /\ pc # "quit"

\* C11 as claimed: the pair (access_token, refresh_token) in memory is the pair
\* loaded at start or the pair of one successful token response, the store
\* holds that same pair, and a token request that did not succeed (an `error`
\* field, an HTTP failure, a body missing one of the two tokens) has changed
\* neither token nor the store.
C11_TokenPairAtomic ==
  LET pair == << access_token, refresh_token >>
      loaded == << creds.access_token, creds.refresh_token >>
  IN /\ \/ pair = loaded
        \/ \E n \in 1..issued : pair = << Token(n), Token(n) >>
     /\ << store.access_token, store.refresh_token >> = pair
     /\ saves = << >> => pair = loaded

\* C12 as claimed: over all the _ensure_access calls of the instance at most
\* one token request carries the authorization code, and once an exchange has
\* succeeded the credential state in memory holds no code.
C12_CodeSingleUse ==
  /\ code_sent <= 1
  /\ saves # << >> => (code = None /\ creds.code = None)

\* The sleeps of a get_art_info call are 32, 64, 128, ... in that order, and
\* the request in flight is the one that would sleep next in that series.
ArtSleepsDouble ==
  /\ \A i \in 1..Len(sleeps) : sleeps[i] = DEFAULT_RATE_LIMIT_TIMEOUT * 2^(i - 1)
  /\ op_pc \in {"art_sent", "art_retry"} =>
       _rate_limit_sec = DEFAULT_RATE_LIMIT_TIMEOUT * 2^Len(sleeps)

DownloadReturns ==
  (returned.op = "get_download" /\ returned.body.kind = "object") =>
    /\ (returned.body.error /\ returned.body.desc) =>
         (returned.out = "return" /\ returned.value = None /\ pc # "quit")
    /\ (returned.body.error /\ ~returned.body.desc) =>
         (returned.out = "raise" /\ returned.exc = "KeyError")
    /\ (~returned.body.error /\ returned.body.src # None) =>
         (returned.out = "return" /\ returned.value = returned.body.src)

OffsetsAscend ==
  /\ \A i \in 1..(Len(log) - 1) : log[i].offset <= log[i+1].offset
  /\ (pc = "running" /\ log # << >>) => Last(log).offset <= params.offset

\* The run is done at the first accepted response with has_more = false, and
\* only there.
EndsAtLastPage ==
  /\ \A i \in 1..Len(log) :
       (log[i].accepted /\ ~log[i].data.has_more) => (i = Len(log) /\ pc = "done")
  /\ pc = "done" =>
       /\ log # << >> /\ Last(log).accepted /\ ~Last(log).data.has_more
       /\ ~ENABLED PagerResponse /\ ~ENABLED PagerThrottled

\* C15 as claimed: whatever the server answers, the offsets sent in a run
\* never decrease, and the run ends at the first accepted response whose
\* has_more is false.
C15_OffsetsNeverDecrease == OffsetsAscend /\ EndsAtLastPage

\* No accepted page carried a cursor behind the offset it was requested with.
CursorsAscend ==
  \A i \in 1..Len(log) :
    (log[i].accepted /\ log[i].data.has_more) => log[i].offset <= log[i].data.next_offset

\* C15 as amended: the offsets never decrease as long as no accepted page
\* carried a next_offset below the offset of its own request, and the run ends
\* at the first accepted response whose has_more is false.
C15_OffsetsFollowCursor ==
  /\ CursorsAscend => OffsetsAscend
  /\ EndsAtLastPage

\* Offsets 0, 24, 30 under ascending cursors, a 429 among them, and the run
\* done at the third page.
C15_Witness ==
  /\ pc = "done" /\ CursorsAscend
  /\ \E i \in 1..Len(log) : \E j \in 1..Len(log) :
       /\ i < j /\ log[i].offset = 24 /\ Is429(log[i])
       /\ log[j].offset = 30 /\ log[j].accepted

\* The bodies a 429 may come with: a payload, an error object, nothing.
ThrottleBodies == { "page", "error", "empty" }

\* The 429 at i ended the run: its forced _ensure_access call did not return.
EndedInAccess(i) ==
  /\ i = Len(log) /\ pc \in {"quit", "raised"}
  /\ log[i].ea /\ log[i].wait > 640 /\ lastEA.out \in {"quit", "raise"}

C17_RunTerminates ==
  /\ (pc = "running") ~> (pc = "done")
  /\ [](pc \in {"idle", "running", "done"})
  /\ []((log # << >> /\ Is429(Last(log))) =>
         (pc = "running" /\ Last(log).slept = Last(log).wait))

\* Three 429s in a row, slept on for 32, 64 and 128 seconds, then the last
\* page and the run done.
C17_Witness ==
  /\ pc = "done" /\ Len(log) = 4
  /\ Burst(log) = 3 /\ log[3].slept = 128

\* C18 as claimed: the run prints its rate-limit line once, at its first 429,
\* and at no later 429, those of a later episode included.
C18_DiagnosticOnce ==
  diag = IF Throttles(log) > 0 THEN 1 ELSE 0

\* A 429 that arrived with rate_limit_sec at its default.
OpensEpisode(e) == Is429(e) /\ e.wait = DEFAULT_RATE_LIMIT_TIMEOUT

\* C18 as amended: the run prints its rate-limit line once per episode of
\* consecutive 429s, at the 429s that arrive with rate_limit_sec at 32, and
\* these are the first response of the run and the 429s that follow a response
\* that is not a 429.
C18_DiagnosticPerEpisode ==
  /\ diag = Len(SelectSeq(log, OpensEpisode))
  /\ \A i \in 1..Len(log) :
       Is429(log[i]) => (OpensEpisode(log[i]) <=> (i = 1 \/ ~Is429(log[i-1])))

\* Two 429s, a page, a third 429: two lines printed.
C18_Witness ==
  /\ diag = 2 /\ Len(log) >= 4
  /\ Is429(log[1]) /\ Is429(log[2]) /\ log[3].accepted /\ Is429(log[4])

\* C19 as claimed: the request a running pager is about to send carries the
\* access token the instance holds, also after an _ensure_access call inside
\* the run replaced it.
C19_RequestsCarryHeldToken ==
  pc = "running" => session_token = access_token

\* The latest _ensure_access call ended an exchange with both tokens issued
\* and saved.
Exchanged ==
  /\ lastEA.grants # << >> /\ lastEA.tok.ok /\ lastEA.tok.tokens = "both"
  /\ access_token = Token(issued) /\ saves # << >>

\* C20 as claimed: when _ensure_access has returned normally, the access token
\* was just confirmed by a successful probe or just obtained by a successful
\* exchange; after a token request answered by an HTTP failure the call has
\* not returned normally.
C20_ReturnsOnlyValidated ==
  lastEA.out = "return" =>
    /\ access_token # None
    /\ lastEA.probe = "success" \/ Exchanged
    /\ lastEA.grants # << >> => lastEA.tok.ok

====
